---- MODULE Spec2Model ----
(***************************************************************************)
(* The useMultiStepForm hook of react-zod-multistep-form: a step index     *)
(* held in React state, a forward move gated on the partial validation of  *)
(* the rendered step's fields, an unconditional backward move and the raw  *)
(* state setter.  The two variants of the hook (goToNextStep / next,       *)
(* goToPreviousStep / back) have the same body; the names used here are    *)
(* those of src/src/hooks/useMultiStepForm.ts.                             *)
(*                                                                         *)
(* Indices are 0-based as in the source.  An updater passed to             *)
(* setCurrentStepIndex is applied to currentStepIndex when it is queued:   *)
(* React applies queued updaters in order, so the value is the same.  What *)
(* the caller holds (the returned object and the closures in it) is the    *)
(* result of the last render, kept in `hook`.                              *)
(*                                                                         *)
(* trigger (react-hook-form with the zod resolver) is outside the          *)
(* repository: it reads the form values when it is called, and when it     *)
(* settles it sets or clears the errors of the named fields.  Suspended    *)
(* invocations settle in any order, or never.                              *)
(*                                                                         *)
(* A second call of the hook is kept in `peer`; it takes part only in      *)
(* TwoSpec.  The other specifications restrict the caller: NavSpec (no     *)
(* setCurrentStepIndex), RenderedSpec (calls made from the current         *)
(* render), AdvSpec (a caller who only advances on accepted values).       *)
(***************************************************************************)
EXTENDS Integers, Sequences, FiniteSets, Bags, TLC

\* Bounds of the model.
MaxSteps == 3
MaxCalls == 2
MaxPending == 2

VARIABLES
    steps,             \* the `steps` argument: index -> [component, fields]
    values,            \* form-state engine: field -> current value
    errors,            \* form-state engine: the fields that carry an error
    currentStepIndex,  \* the useState cell
    hook,              \* what the last completed render returned
    crashed,           \* a render threw (steps[currentStepIndex] undefined)
    pending,           \* bag of goToNextStep invocations suspended at `await trigger`
    advanceCalls,      \* number of goToNextStep invocations so far
    validatorCalls,    \* number of trigger invocations so far
    last,              \* the operation that produced this state
    peer               \* a second instance of the hook: its useState cell
                       \* and the number of its suspended invocations

vars == <<steps, values, errors, currentStepIndex, hook, crashed, pending,
          advanceCalls, validatorCalls, last, peer>>

-----------------------------------------------------------------------------
\* The form of the README: a name and an age.

Fields == {"name", "age"}

NameValues == {"", "Al"}
AgeValues == {0, 18}

ValueSpace == [name : NameValues, age : AgeValues]

\* z.string().min(2)
NameMinLength == 2
\* z.number().min(18)
AgeMin == 18

\* schema: does value v of field f pass the rule of the field.
SchemaAccepts(f, v) ==
    IF f = "name" THEN Len(v) >= NameMinLength ELSE v >= AgeMin

\* The fields of step i: the steps cycle through [name], [age], [name, age].
StepFields(i) ==
    CASE i % 3 = 0 -> {"name"}
      [] i % 3 = 1 -> {"age"}
      [] OTHER     -> {"name", "age"}

\* The `steps` arrays given to the hook: 1..MaxSteps steps.
StepsOfLength(n) ==
    [i \in 0..(n - 1) |-> [component |-> <<"Step", i>>, fields |-> StepFields(i)]]

StepConfigs == {StepsOfLength(n) : n \in 1..MaxSteps}

\* steps.length
Length(s) == Cardinality(DOMAIN s)

Undefined == [undefined |-> TRUE]
TypeError == [throws |-> "TypeError"]

\* steps[i] as JavaScript evaluates it: undefined outside the array.
StepAt(s, i) == IF i \in DOMAIN s THEN s[i] ELSE Undefined

-----------------------------------------------------------------------------
\* Variant: trigger() without names, which validates the whole form.
AllInvalidFields(fields, vals) == {f \in Fields : ~SchemaAccepts(f, vals[f])}

\* trigger(fields): the resolver is run on the values and the errors of the
\* named fields are returned; the other fields are not looked at.
InvalidFields(fields, vals) == {f \in fields : ~SchemaAccepts(f, vals[f])}

\* The error set after trigger(fields) found `invalid`: the named fields are
\* set or cleared, the others keep what they had.
ErrorsAfterTrigger(errs, fields, invalid) == (errs \ fields) \cup invalid

\* Variant: the updater without its check against steps.length - 1.
NextUpdaterUnclamped(prevStep, n) == prevStep + 1

\* Variant: the updater with its check one step early.
NextUpdaterClampedEarly(prevStep, n) ==
    IF prevStep >= n - 2 THEN prevStep ELSE prevStep + 1

\* The updater of goToNextStep.
NextUpdater(prevStep, n) ==
    IF prevStep >= n - 1 THEN prevStep ELSE prevStep + 1

\* Variant: the updater without its check against 0.
PreviousUpdaterUnclamped(prevStep) == prevStep - 1

\* The updater of goToPreviousStep.
PreviousUpdater(prevStep) ==
    IF prevStep <= 0 THEN prevStep ELSE prevStep - 1

\* Variant: the early return on !isValid left out.
IndexAfterUngated(isValid, prevStep, n) == NextUpdater(prevStep, n)

\* What goToNextStep does to the index once trigger has resolved to isValid.
IndexAfterTrigger(isValid, prevStep, n) ==
    IF ~isValid THEN prevStep ELSE NextUpdater(prevStep, n)

\* Variant: goToNextStep with a catch around the await that drops the error.
SettlementSwallowing(result) == "resolved"

\* How the promise of goToNextStep settles for each way trigger can end.
Settlement(result) ==
    IF result = "throw" THEN "rejected" ELSE "resolved"

\* What trigger can throw when the resolver or the engine malfunctions.
TriggerErrors == {"ResolverError", "EngineError"}

\* goToNextStep has no try/catch: the rejection of the awaited trigger is
\* the rejection of goToNextStep, with the same reason.
Rethrown(e) == e

\* Variant: a setter that clamps its argument to 0..n-1.
SetStateClamped(index, n) ==
    IF index < 0 THEN 0 ELSE IF index > n - 1 THEN n - 1 ELSE index

\* setCurrentStepIndex(index): the state setter itself.
SetState(index, n) == index

\* Variants: the derived flags with their comparison off by one.
IsFirstStepOffByOne(i) == i <= 1

IsLastStepOffByOne(i, n) == i >= n

\* The derived flags.
IsFirstStep(i) == i <= 0

IsLastStep(i, n) == i >= n - 1

\* The body of the hook for state i: the returned object, or the TypeError
\* of steps[i].component when steps[i] is undefined.
HookReturn(s, i) ==
    IF StepAt(s, i) = Undefined
    THEN TypeError
    ELSE [CurrentStep      |-> s[i].component,
          currentStepIndex |-> i,
          isFirstStep      |-> IsFirstStep(i),
          isLastStep       |-> IsLastStep(i, Length(s))]

-----------------------------------------------------------------------------
\* The record of an operation: its name, the index it was called with or
\* on (step), the value of the state cell before it (before); for a resumed
\* goToNextStep how trigger ended (result), how the promise settled
\* (settled), what trigger threw (thrown) and what the caller received
\* (raised); for goToPreviousStep, when it directly follows a resumed
\* goToNextStep whose validation passed, that result and the index that
\* invocation found (prevResult, prevBefore).
NoOp == [op |-> "init", step |-> 0, before |-> 0, result |-> "none",
         settled |-> "none", thrown |-> "none", raised |-> "none",
         prevResult |-> "none", prevBefore |-> 0]

\* The second instance before any operation.
PeerInit == [currentStepIndex |-> 0, pending |-> 0]

Init ==
    /\ steps \in StepConfigs
    /\ values \in ValueSpace
    /\ errors = {}
    /\ currentStepIndex = 0
    /\ hook = HookReturn(steps, 0)
    /\ crashed = FALSE
    /\ pending = EmptyBag
    /\ advanceCalls = 0
    /\ validatorCalls = 0
    /\ last = NoOp
    /\ peer = PeerInit

\* The user edits a field through the form-state engine.
SetValue ==
    /\ ~crashed
    /\ \E f \in Fields : \E v \in (IF f = "name" THEN NameValues ELSE AgeValues) :
          /\ v # values[f]
          /\ values' = [values EXCEPT ![f] = v]
    /\ last' = [NoOp EXCEPT !.op = "setValue", !.before = currentStepIndex]
    /\ UNCHANGED <<steps, errors, currentStepIndex, hook, crashed, pending,
                   advanceCalls, validatorCalls, peer>>

\* Variant: goToNextStep that moves the index when it is called, before the
\* validation has returned.
GoToNextStepOptimistic ==
    /\ ~crashed
    /\ advanceCalls < MaxCalls
    /\ BagCardinality(pending) < MaxPending
    /\ LET i == hook.currentStepIndex
       IN  /\ pending' = pending (+) SetToBag({
                 [step |-> i,
                  invalid |-> InvalidFields(steps[i].fields, values)]})
           /\ last' = [NoOp EXCEPT !.op = "goToNextStep", !.step = i,
                                   !.before = currentStepIndex]
    /\ currentStepIndex' = NextUpdater(currentStepIndex, Length(steps))
    /\ validatorCalls' = validatorCalls + 1
    /\ advanceCalls' = advanceCalls + 1
    /\ UNCHANGED <<steps, values, errors, hook, crashed, peer>>

\* Variant: the resumed goToNextStep sets the index from the index its
\* closure captured (setCurrentStepIndex(currentStepIndex + 1)) and not
\* from the one the updater is given.
TriggerResolvesFromCaptured ==
    /\ ~crashed
    /\ \E p \in BagToSet(pending) :
          LET isValid == p.invalid = {}
              result == IF isValid THEN "pass" ELSE "fail"
          IN  /\ errors' = ErrorsAfterTrigger(errors, steps[p.step].fields, p.invalid)
              /\ currentStepIndex' =
                    IF isValid THEN NextUpdater(p.step, Length(steps))
                    ELSE currentStepIndex
              /\ pending' = pending (-) SetToBag({p})
              /\ last' = [NoOp EXCEPT !.op = "resumed", !.step = p.step,
                                      !.before = currentStepIndex,
                                      !.result = result,
                                      !.settled = Settlement(result)]
    /\ UNCHANGED <<steps, values, hook, crashed, advanceCalls, validatorCalls, peer>>

\* Variant: goToNextStep that does not call trigger at the last step, where
\* the index cannot increase.
GoToNextStepSkippingLast ==
    /\ ~crashed
    /\ advanceCalls < MaxCalls
    /\ BagCardinality(pending) < MaxPending
    /\ LET i == hook.currentStepIndex
           skip == i >= Length(steps) - 1
       IN  /\ pending' = pending (+) SetToBag({
                 [step |-> i,
                  invalid |-> IF skip THEN {}
                              ELSE InvalidFields(steps[i].fields, values)]})
           /\ validatorCalls' = IF skip THEN validatorCalls ELSE validatorCalls + 1
           /\ last' = [NoOp EXCEPT !.op = "goToNextStep", !.step = i,
                                   !.before = currentStepIndex]
    /\ advanceCalls' = advanceCalls + 1
    /\ UNCHANGED <<steps, values, errors, currentStepIndex, hook, crashed, peer>>

\* goToNextStep up to its await: trigger is called with the fields of the
\* step of the rendered index (the closure's currentStepIndex) and reads
\* the values.
GoToNextStep ==
    /\ ~crashed
    /\ advanceCalls < MaxCalls
    /\ BagCardinality(pending) < MaxPending
    /\ LET i == hook.currentStepIndex
       IN  /\ pending' = pending (+) SetToBag({
                 [step |-> i,
                  invalid |-> InvalidFields(steps[i].fields, values)]})
           /\ last' = [NoOp EXCEPT !.op = "goToNextStep", !.step = i,
                                   !.before = currentStepIndex]
    /\ validatorCalls' = validatorCalls + 1
    /\ advanceCalls' = advanceCalls + 1
    /\ UNCHANGED <<steps, values, errors, currentStepIndex, hook, crashed, peer>>

\* trigger resolves for one suspended invocation, which runs to its end.
TriggerResolves ==
    /\ ~crashed
    /\ \E p \in BagToSet(pending) :
          LET isValid == p.invalid = {}
              result == IF isValid THEN "pass" ELSE "fail"
          IN  /\ errors' = ErrorsAfterTrigger(errors, steps[p.step].fields, p.invalid)
              /\ currentStepIndex' =
                    IndexAfterTrigger(isValid, currentStepIndex, Length(steps))
              /\ pending' = pending (-) SetToBag({p})
              /\ last' = [NoOp EXCEPT !.op = "resumed", !.step = p.step,
                                      !.before = currentStepIndex,
                                      !.result = result,
                                      !.settled = Settlement(result)]
    /\ UNCHANGED <<steps, values, hook, crashed, advanceCalls, validatorCalls, peer>>

\* trigger rejects (the resolver or the engine malfunctions): the await
\* throws and the invocation ends there.
TriggerRejects ==
    /\ ~crashed
    /\ \E p \in BagToSet(pending) : \E e \in TriggerErrors :
              /\ pending' = pending (-) SetToBag({p})
              /\ last' = [NoOp EXCEPT !.op = "resumed", !.step = p.step,
                                      !.before = currentStepIndex,
                                      !.result = "throw",
                                      !.settled = Settlement("throw"),
                                      !.thrown = e,
                                      !.raised = Rethrown(e)]
    /\ UNCHANGED <<steps, values, errors, currentStepIndex, hook, crashed,
                   advanceCalls, validatorCalls, peer>>

GoToPreviousStep ==
    /\ ~crashed
    /\ currentStepIndex' = PreviousUpdater(currentStepIndex)
    /\ last' = [NoOp EXCEPT !.op = "goToPreviousStep",
                            !.before = currentStepIndex,
                            !.prevResult =
                                IF last.op = "resumed" /\ last.result = "pass"
                                THEN "pass" ELSE "none",
                            !.prevBefore =
                                IF last.op = "resumed" /\ last.result = "pass"
                                THEN last.before ELSE 0]
    /\ UNCHANGED <<steps, values, errors, hook, crashed, pending,
                   advanceCalls, validatorCalls, peer>>

\* The arguments setCurrentStepIndex is called with: every index of the
\* array and one value outside it on either side.
SetCurrentStepIndex ==
    /\ ~crashed
    /\ \E index \in -1..Length(steps) :
          /\ currentStepIndex' = SetState(index, Length(steps))
          /\ last' = [NoOp EXCEPT !.op = "setCurrentStepIndex", !.step = index,
                                  !.before = currentStepIndex]
    /\ UNCHANGED <<steps, values, errors, hook, crashed, pending,
                   advanceCalls, validatorCalls, peer>>

\* React renders the component again after a state change: the hook body
\* runs with the new state, and throws when steps[currentStepIndex] is
\* undefined, which unmounts the component.
Render ==
    /\ ~crashed
    /\ hook.currentStepIndex # currentStepIndex
    /\ LET r == HookReturn(steps, currentStepIndex)
       IN  IF r = TypeError
           THEN crashed' = TRUE /\ hook' = hook
           ELSE crashed' = FALSE /\ hook' = r
    /\ last' = [NoOp EXCEPT !.op = "render", !.before = currentStepIndex]
    /\ UNCHANGED <<steps, values, errors, currentStepIndex, pending,
                   advanceCalls, validatorCalls, peer>>

Next ==
    \/ SetValue
    \/ GoToNextStep
    \/ TriggerResolves
    \/ TriggerRejects
    \/ GoToPreviousStep
    \/ SetCurrentStepIndex
    \/ Render

Spec == Init /\ [][Next]_vars

\* The executions made of goToNextStep and goToPreviousStep alone: the
\* caller never uses setCurrentStepIndex.
NavNext ==
    \/ SetValue
    \/ GoToNextStep
    \/ TriggerResolves
    \/ TriggerRejects
    \/ GoToPreviousStep
    \/ Render

NavSpec == Init /\ [][NavNext]_vars

\* Variant: the index kept in one module-level cell that every hook call
\* uses.
SharedStateCell(k) == 1

\* The state cell of the k-th call of the hook: useState is called in the
\* body of the hook, so every call has a cell of its own.
StateCell(k) == k

ReadCell(c) == IF c = 1 THEN currentStepIndex ELSE peer.currentStepIndex

\* The second instance stores v in its cell and has n suspended invocations.
PeerStore(v, n) ==
    LET c == StateCell(2)
    IN  /\ currentStepIndex' = IF c = 1 THEN v ELSE currentStepIndex
        /\ peer' = [currentStepIndex |-> IF c = 1 THEN peer.currentStepIndex ELSE v,
                    pending |-> n]

\* The operations of the second instance.  Its form-state engine is not
\* modelled: each of its validations passes or fails.
PeerGoToNextStep ==
    /\ peer.pending = 0
    /\ peer' = [peer EXCEPT !.pending = @ + 1]
    /\ last' = [NoOp EXCEPT !.op = "peerGoToNextStep"]
    /\ UNCHANGED <<steps, values, errors, currentStepIndex, hook, crashed,
                   pending, advanceCalls, validatorCalls>>

PeerTriggerResolves ==
    /\ peer.pending > 0
    /\ \E isValid \in BOOLEAN :
          /\ PeerStore(IndexAfterTrigger(isValid, ReadCell(StateCell(2)),
                                         Length(steps)),
                       peer.pending - 1)
          /\ last' = [NoOp EXCEPT !.op = "peerResumed",
                                  !.result = IF isValid THEN "pass" ELSE "fail"]
    /\ UNCHANGED <<steps, values, errors, hook, crashed, pending,
                   advanceCalls, validatorCalls>>

PeerGoToPreviousStep ==
    /\ PeerStore(PreviousUpdater(ReadCell(StateCell(2))), peer.pending)
    /\ last' = [NoOp EXCEPT !.op = "peerGoToPreviousStep"]
    /\ UNCHANGED <<steps, values, errors, hook, crashed, pending,
                   advanceCalls, validatorCalls>>

PeerSetCurrentStepIndex ==
    /\ \E index \in -1..Length(steps) :
          /\ PeerStore(SetState(index, Length(steps)), peer.pending)
          /\ last' = [NoOp EXCEPT !.op = "peerSetCurrentStepIndex",
                                  !.step = index]
    /\ UNCHANGED <<steps, values, errors, hook, crashed, pending,
                   advanceCalls, validatorCalls>>

PeerOps == {"peerGoToNextStep", "peerResumed", "peerGoToPreviousStep",
            "peerSetCurrentStepIndex"}

\* goToNextStep called when no earlier call is suspended.
GoToNextStepAlone ==
    /\ pending = EmptyBag
    /\ GoToNextStep

\* Two calls of the hook with the same steps, each used by its own caller,
\* who makes one call at a time.  The form of the first instance holds an
\* accepted name and a rejected age.
TwoInit ==
    /\ Init
    /\ SchemaAccepts("name", values["name"])
    /\ ~SchemaAccepts("age", values["age"])

TwoNext ==
    \/ GoToNextStepAlone
    \/ TriggerResolves
    \/ GoToPreviousStep
    \/ SetCurrentStepIndex
    \/ Render
    \/ PeerGoToNextStep
    \/ PeerTriggerResolves
    \/ PeerGoToPreviousStep
    \/ PeerSetCurrentStepIndex

TwoSpec == TwoInit /\ [][TwoNext]_vars

\* goToNextStep called from the closure of an up-to-date render: the index
\* it reads is the index at the moment it is invoked.
GoToNextStepRendered ==
    /\ hook.currentStepIndex = currentStepIndex
    /\ GoToNextStep

\* The executions of goToNextStep and goToPreviousStep in which every
\* goToNextStep call is made after the render of the last change.
RenderedNext ==
    \/ SetValue
    \/ GoToNextStepRendered
    \/ TriggerResolves
    \/ TriggerRejects
    \/ GoToPreviousStep
    \/ Render

RenderedSpec == Init /\ [][RenderedNext]_vars

\* Values the schema accepts, for a user who keeps the form valid.
AcceptedValues(f) == IF f = "name" THEN {"Al", "Alice"} ELSE {18, 40}

\* The user replaces the value of a field by another accepted value.
SetAcceptedValue ==
    /\ ~crashed
    /\ \E f \in Fields : \E v \in AcceptedValues(f) :
          /\ v # values[f]
          /\ values' = [values EXCEPT ![f] = v]
    /\ last' = [NoOp EXCEPT !.op = "setValue", !.before = currentStepIndex]
    /\ UNCHANGED <<steps, errors, currentStepIndex, hook, crashed, pending,
                   advanceCalls, validatorCalls, peer>>

\* The caller only advances, on a form whose values the schema accepts, so
\* that every validation succeeds.  Every call that can be made is made,
\* every validation returns and every state change is rendered.
AdvInit ==
    /\ Init
    /\ \A f \in Fields : SchemaAccepts(f, values[f])

AdvNext ==
    \/ SetAcceptedValue
    \/ GoToNextStep
    \/ TriggerResolves
    \/ Render

AdvSpec ==
    /\ AdvInit
    /\ [][AdvNext]_vars
    /\ WF_vars(GoToNextStep)
    /\ WF_vars(TriggerResolves)
    /\ WF_vars(Render)

-----------------------------------------------------------------------------
N == Length(steps)

Min(a, b) == IF a < b THEN a ELSE b
Max(a, b) == IF a > b THEN a ELSE b

InRange(i) == 0 <= i /\ i < N

\* The invocation of goToNextStep that ran to its end in this state, if any.
Resumed == last.op = "resumed"

TypeOK ==
    /\ steps \in StepConfigs
    /\ values \in ValueSpace
    /\ errors \subseteq Fields
    /\ currentStepIndex \in -1..N
    /\ crashed \in BOOLEAN
    /\ BagCardinality(pending) <= MaxPending
    /\ advanceCalls \in 0..MaxCalls

-----------------------------------------------------------------------------
\* C1: when the validation of the step's fields fails, goToNextStep leaves
\* currentStepIndex as it was and its promise resolves (nothing is thrown);
\* the failure shows in the error set of the form-state engine, on the
\* fields of the validated step.
C1_FailedValidationKeepsIndex ==
    (Resumed /\ last.result = "fail") =>
        /\ currentStepIndex = last.before
        /\ last.settled = "resolved"
        /\ errors \cap steps[last.step].fields # {}

C1_Witness ==
    /\ Resumed
    /\ last.result = "fail"
    /\ last.before < N - 1
    /\ errors # {}

\* C2: in the executions of goToNextStep and goToPreviousStep, every move of
\* currentStepIndex from i to i+1 is made by an invocation whose validation
\* was of steps[i].fields.
C2_ForwardMoveValidatedItsOwnStep ==
    (Resumed /\ currentStepIndex = last.before + 1) =>
        steps[last.step].fields = steps[last.before].fields

\* C3 as stated: after a successful validation currentStepIndex is
\* min(currentStepIndex + 1, N-1).
C3_SuccessGivesMin ==
    (Resumed /\ last.result = "pass") =>
        currentStepIndex = Min(last.before + 1, N - 1)

\* C3: after a successful validation currentStepIndex is one more than it
\* was when below N-1, and is left as it was at N-1 and above N-1 (where a
\* setCurrentStepIndex beyond the array can have put it).
C3_SuccessIncrementsBelowLast ==
    (Resumed /\ last.result = "pass") =>
        currentStepIndex =
            IF last.before <= N - 1 THEN Min(last.before + 1, N - 1)
            ELSE last.before

C3_Witness ==
    /\ Resumed
    /\ last.result = "pass"
    /\ last.before = N - 2
    /\ currentStepIndex = N - 1
    /\ N >= 2

\* C4: goToNextStep validates the fields of steps[currentStepIndex] and no
\* others.  When it is called, the validation it starts passes exactly when
\* every field of the rendered step has an accepted value, whatever the
\* other fields hold; when it resumes, the index moves only for a passed
\* validation, a passed validation below the last step always moves it, and
\* the errors of the fields outside the step are left alone.
C4_ValidatesActiveStepOnly ==
    [][ /\ last'.op = "goToNextStep" =>
             \E p \in BagToSet(pending') :
                /\ pending' = pending (+) SetToBag({p})
                /\ p.step = hook.currentStepIndex
                /\ p.invalid \subseteq steps[p.step].fields
                /\ (p.invalid = {}) <=>
                      (\A f \in steps[hook.currentStepIndex].fields :
                          SchemaAccepts(f, values[f]))
        /\ (last'.op = "resumed" /\ last'.result # "throw") =>
             \E p \in BagToSet(pending) :
                /\ pending' = pending (-) SetToBag({p})
                /\ p.step = last'.step
                /\ (currentStepIndex' # currentStepIndex) => (p.invalid = {})
                /\ (p.invalid = {} /\ currentStepIndex < N - 1) =>
                      (currentStepIndex' = currentStepIndex + 1)
                /\ errors' \ steps[p.step].fields = errors \ steps[p.step].fields
      ]_vars

\* steps [name], [age]: with name valid and age invalid the call made at
\* index 0 has moved the index to 1, the last step, and age has no error.
C4_Witness ==
    /\ N = 2
    /\ Resumed
    /\ last.result = "pass"
    /\ last.step = 0
    /\ last.before = 0
    /\ currentStepIndex = 1
    /\ IsLastStep(currentStepIndex, N)
    /\ ~SchemaAccepts("age", values["age"])
    /\ "age" \notin errors

\* C5 as stated: goToPreviousStep in any state sets currentStepIndex to
\* max(currentStepIndex - 1, 0).
C5_RetreatGivesMax ==
    (last.op = "goToPreviousStep") =>
        currentStepIndex = Max(last.before - 1, 0)

\* C5: goToPreviousStep sets currentStepIndex to max(currentStepIndex - 1, 0)
\* when the index is not negative and leaves a negative index (which only a
\* setCurrentStepIndex can have stored) as it is; it calls no validation and
\* leaves the values, the error set and the suspended invocations alone.
C5_RetreatDecrementsAboveFirst ==
    [][ (last'.op = "goToPreviousStep") =>
            /\ currentStepIndex' =
                  IF currentStepIndex >= 0 THEN Max(currentStepIndex - 1, 0)
                  ELSE currentStepIndex
            /\ UNCHANGED <<values, errors, validatorCalls, pending>>
      ]_vars

C5_Witness ==
    /\ last.op = "goToPreviousStep"
    /\ last.before = 0
    /\ currentStepIndex = 0
    /\ errors # {}
    /\ validatorCalls > 0

\* C6 as stated: 0 <= currentStepIndex < len(steps) in every state reached
\* through goToNextStep, goToPreviousStep and setCurrentStepIndex.
C6_IndexAlwaysInRange == InRange(currentStepIndex)

\* C6: 0 <= currentStepIndex < len(steps) holds initially and is kept by
\* every operation except a setCurrentStepIndex whose argument is outside
\* 0..N-1.
C6_IndexInRangeUnlessJumpedOut ==
    /\ InRange(currentStepIndex)
    /\ [][ (/\ InRange(currentStepIndex)
            /\ ~(last'.op = "setCurrentStepIndex" /\ ~InRange(last'.step)))
           => InRange(currentStepIndex') ]_vars

C6_Witness ==
    /\ last.op = "setCurrentStepIndex"
    /\ InRange(last.step)
    /\ last.before # last.step
    /\ currentStepIndex = last.step

\* C7: setCurrentStepIndex(index) stores exactly the value it is given,
\* calls no validation and leaves the form-state engine alone; a value
\* outside 0..N-1 is stored as given and steps[currentStepIndex] is then
\* undefined.
C7_JumpStoresArgument ==
    [][ (last'.op = "setCurrentStepIndex") =>
            /\ currentStepIndex' = last'.step
            /\ UNCHANGED <<values, errors, validatorCalls, pending>>
            /\ ~InRange(last'.step) =>
                  StepAt(steps, currentStepIndex') = Undefined
      ]_vars

\* N = 3, at index 1: setCurrentStepIndex(2) gives 2 with no validator call.
C7_Witness ==
    /\ N = 3
    /\ last.op = "setCurrentStepIndex"
    /\ last.before = 1
    /\ last.step = 2
    /\ currentStepIndex = 2
    /\ validatorCalls = 0

\* C8: the returned isFirstStep and isLastStep are both true only when
\* N = 1, and when N = 1 both are true.
C8_FlagsExclusiveUnlessSingleStep ==
    /\ (hook.isFirstStep /\ hook.isLastStep) => N = 1
    /\ N = 1 => (hook.isFirstStep /\ hook.isLastStep)

C8_Witness ==
    /\ N = 1
    /\ Resumed
    /\ last.result = "pass"
    /\ hook.isFirstStep
    /\ hook.isLastStep

\* C9: the returned flags are those of the index returned with them:
\* isFirstStep exactly when it is 0, isLastStep exactly when it is N-1.
C9_FlagsMatchReturnedIndex ==
    /\ hook.isFirstStep <=> (hook.currentStepIndex = 0)
    /\ hook.isLastStep <=> (hook.currentStepIndex = N - 1)

C9_Witness ==
    /\ last.op = "render"
    /\ N >= 2
    /\ hook.currentStepIndex = N - 1
    /\ hook.isLastStep
    /\ ~hook.isFirstStep

\* C10: every goToNextStep invocation calls trigger once: the number of
\* validator calls is the number of goToNextStep calls.
C10_OneValidationPerAdvance == validatorCalls = advanceCalls

\* A second call made at the last step, where the index cannot increase.
C10_Witness ==
    /\ last.op = "goToNextStep"
    /\ last.step = N - 1
    /\ advanceCalls >= 2
    /\ validatorCalls = advanceCalls

\* C11: a goToNextStep whose validation succeeded at an interior index i
\* (0 < i < N-1), followed directly by goToPreviousStep, leaves
\* currentStepIndex at i.
C11_AdvanceThenRetreatReturns ==
    (/\ last.op = "goToPreviousStep"
     /\ last.prevResult = "pass"
     /\ 0 < last.prevBefore
     /\ last.prevBefore < N - 1) =>
        currentStepIndex = last.prevBefore

C11_Witness ==
    /\ last.op = "goToPreviousStep"
    /\ last.prevResult = "pass"
    /\ 0 < last.prevBefore
    /\ last.prevBefore < N - 1
    /\ last.before = last.prevBefore + 1
    /\ currentStepIndex = last.prevBefore

\* The goToNextStep invocations that have run to their end.
Completed == advanceCalls - BagCardinality(pending)

\* C12: from index 0, with validations that always succeed, the index after
\* k completed goToNextStep calls is min(k, N-1): N-1 of them bring it to
\* N-1, every further one leaves it there, and repeated calls do bring it
\* there for good.
C12_AdvancesStabiliseAtLast ==
    /\ [](currentStepIndex = Min(Completed, N - 1))
    /\ <>[](currentStepIndex = N - 1)

C12_Witness ==
    /\ N >= 2
    /\ Resumed
    /\ last.result = "pass"
    /\ last.before = N - 1
    /\ currentStepIndex = N - 1
    /\ Completed > N - 1

\* C13: when trigger throws, goToNextStep rejects with the error trigger
\* threw, unchanged, and currentStepIndex is left as it was.
C13_MalfunctionPropagates ==
    (Resumed /\ last.result = "throw") =>
        /\ currentStepIndex = last.before
        /\ last.settled = "rejected"
        /\ last.thrown \in TriggerErrors
        /\ last.raised = last.thrown

C13_Witness ==
    /\ Resumed
    /\ last.result = "throw"
    /\ last.raised = "EngineError"
    /\ last.before < N - 1
    /\ currentStepIndex = last.before

\* C14: the two instances own their state: an operation of the second
\* instance leaves the index, the returned object and the form of the first
\* as they are, and an operation of the first leaves the second's index
\* (from which its flags are derived) as it is.
C14_InstancesIndependent ==
    [][ IF last'.op \in PeerOps
        THEN UNCHANGED <<currentStepIndex, hook, crashed, pending, values, errors>>
        ELSE /\ peer' = peer
             /\ IsFirstStep(peer'.currentStepIndex) = IsFirstStep(peer.currentStepIndex)
             /\ IsLastStep(peer'.currentStepIndex, N) = IsLastStep(peer.currentStepIndex, N)
      ]_vars

C14_Witness ==
    /\ last.op = "peerResumed"
    /\ last.result = "pass"
    /\ peer.currentStepIndex = 1
    /\ currentStepIndex = 2
    /\ hook.currentStepIndex = 2

\* C15: with goToNextStep and goToPreviousStep alone, 0 <= currentStepIndex
\* <= N-1 in every state, whatever the number of suspended invocations, the
\* order in which they resume and the goToPreviousStep calls in between.
C15_NavigationStaysInRange ==
    0 <= currentStepIndex /\ currentStepIndex <= N - 1

\* An invocation made at an earlier index resumes with a passed validation
\* when the index is already N-1, after another invocation moved it there.
C15_Witness ==
    /\ N >= 2
    /\ Resumed
    /\ last.result = "pass"
    /\ last.step < N - 1
    /\ last.before = N - 1
    /\ currentStepIndex = N - 1

\* C16: a goToNextStep invocation changes currentStepIndex only once its
\* own validation has returned: the call up to the await leaves the index
\* as it was, and apart from goToPreviousStep and setCurrentStepIndex the
\* only operation that changes the index is a resumed invocation whose
\* validation passed, so an invocation that stays suspended never does.
C16_IndexMovesOnlyAfterValidation ==
    /\ (last.op = "goToNextStep") => (currentStepIndex = last.before)
    /\ (/\ currentStepIndex # last.before
        /\ last.op \notin {"goToPreviousStep", "setCurrentStepIndex"})
       => (Resumed /\ last.result = "pass")

\* Two invocations are suspended, one of them on accepted values, and the
\* index has not moved.
C16_Witness ==
    /\ last.op = "goToNextStep"
    /\ BagCardinality(pending) = 2
    /\ \E p \in BagToSet(pending) : p.invalid = {}
    /\ last.before < N - 1
    /\ currentStepIndex = last.before

\* C17: the index a goToNextStep invocation finds when its validation
\* completes is the index at the moment it was invoked, whatever was invoked
\* while it was suspended.
C17_IndexUnchangedWhileSuspended ==
    Resumed => (last.before = last.step)

\* C18 as stated: the fields validated are those of the index i read at the
\* call, and on success the result is min(j + 1, N-1) for whatever index j
\* the validation finds when it completes, also when j differs from i.
C18_IncrementFromIndexAtCompletion ==
    (Resumed /\ last.result = "pass" /\ last.step # last.before) =>
        currentStepIndex = Min(last.before + 1, N - 1)

\* C18: the fields validated are those of the index i read at the call
\* (their errors are cleared by a pass and set by a fail), and on success
\* the result is computed from the index j found at completion: j + 1 when
\* j < N-1, and j itself when j >= N-1 (j > N-1 is left as it is).
C18_ValidatesCapturedIncrementsCurrent ==
    (Resumed /\ last.result # "throw") =>
        /\ (last.result = "pass") =>
              /\ errors \cap steps[last.step].fields = {}
              /\ currentStepIndex =
                    IF last.before < N - 1 THEN last.before + 1 ELSE last.before
        /\ (last.result = "fail") =>
              /\ errors \cap steps[last.step].fields # {}
              /\ currentStepIndex = last.before

C18_Witness ==
    /\ Resumed
    /\ last.result = "pass"
    /\ last.step # last.before
    /\ InRange(last.before)
    /\ last.before < N - 1
    /\ currentStepIndex = last.before + 1
    /\ steps[last.step].fields # steps[last.before].fields

====
